---- MODULE Spec2Model ----
(***************************************************************************)
(* Alien Zones: zone-entry detection for tokens on a scene.                *)
(*                                                                         *)
(* Spec models the two hooks of scripts/module.js (preUpdateToken and      *)
(* updateToken) around the module-level Map tokenRegionsBeforeUpdate, with *)
(* the host delivering the hooks of each move of a token in order.         *)
(* SpecDispatch models handleZoneEntry of scripts/lib/zoneHandlers.js, the *)
(* exported entry point of the zone handlers, with every awaited call of a *)
(* collaborator free to resolve or to reject.                              *)
(***************************************************************************)
EXTENDS Integers, Sequences, FiniteSets, TLC

(***************************************************************************)
(* JavaScript values                                                       *)
(***************************************************************************)
Undefined == "<undefined>"
Null == "<null>"
True == "<true>"
False == "<false>"

\* JavaScript truthiness of the values the model uses.
Truthy(v) == v \notin {Undefined, Null, False, ""}

(***************************************************************************)
(* The scene: tokens, region ids, and the host's region registry           *)
(***************************************************************************)
Tokens == {"t1", "t2"}
Regions == {"r1", "r2", "r3"}

\* The regions a token of the model can stand in.
Arena(t) == IF t = "t1" THEN Regions ELSE {"r1"}

\* canvas.scene.regions as the host may hold it: registered ids with their
\* "alien-zones" flags.  r3 is never registered: a stale id.
Scenes ==
  { [r1 |-> [zoneType |-> Null, isAlienZone |-> True],
     r2 |-> [zoneType |-> "unbreathable", isAlienZone |-> False]],
    [r1 |-> [zoneType |-> "constructor", isAlienZone |-> Undefined],
     r2 |-> [zoneType |-> Undefined, isAlienZone |-> True]] }

\* The partial change records the host passes to the hooks, as the set of
\* fields that are present (!== undefined).
Changes == {{"x"}, {"y"}, {"x", "y"}, {"rotation"}}
NoChange == {}

(***************************************************************************)
(* State                                                                   *)
(***************************************************************************)
VARIABLES
  tokenRegionsBeforeUpdate,  \* the Map token id -> Set of region ids
  regions,                   \* tokenDocument._regions of every token
  pending,                   \* the change the host announced for a token and has not applied yet
  scene,                     \* canvas.scene.regions
  run,                       \* the updateToken handler invocation: its locals and its outcome
  d,                         \* the handleZoneEntry invocation: its locals, its effects, its outcome
  actor                      \* tokenDocument.actor of the token handleZoneEntry is called for

vars == <<tokenRegionsBeforeUpdate, regions, pending, scene, run, d, actor>>
hookVars == <<tokenRegionsBeforeUpdate, regions, pending, scene, run>>

\* Map operations
MapHas(m, k) == k \in DOMAIN m
MapSet(m, k, v) == [x \in DOMAIN m \cup {k} |-> IF x = k THEN v ELSE m[x]]
MapDelete(m, k) == [x \in DOMAIN m \ {k} |-> m[x]]
EmptyMap == [x \in {} |-> {}]

\* All orders in which the elements of a set can be listed.
RECURSIVE Orders(_)
Orders(S) ==
  IF S = {} THEN {<<>>}
  ELSE UNION {{<<x>> \o o : o \in Orders(S \ {x})} : x \in S}

Range(s) == {s[i] : i \in 1..Len(s)}

\* The values tokenDocument._regions can take: arrays of distinct region ids.
RegionArrays == UNION {Orders(S) : S \in SUBSET Regions}

\* A token without an actor
NoActor == [exists |-> FALSE, tracksAir |-> FALSE, air |-> 0, items |-> <<>>]

\* handleZoneEntry before it is called. `holders` is the actor's items as
\* they were at the call and `updated` the items item.update has been
\* called on; the code keeps neither.
NoDispatch ==
  [pc |-> "idle", zoneType |-> Undefined, systemId |-> "", handler |-> "none",
   chat |-> <<>>, notices |-> <<>>, rolls |-> <<>>, consumed |-> <<>>,
   queue |-> <<>>, remaining |-> 0, underSupply |-> 0, raised |-> <<>>,
   holders |-> <<>>, onesRolled |-> 0, updated |-> <<>>]

\* updateToken before it is called. `before` is the token's containment
\* when the host applied the change (what the preUpdateToken of this change
\* copied at line 44) and `found` whether the Map held an entry at line 56;
\* the code keeps neither.
NoRun ==
  [tok |-> "none", owner |-> Undefined, branch |-> "none",
   oldRegionIds |-> {}, newRegionIds |-> <<>>, todo |-> <<>>, fired |-> <<>>,
   inflight |-> {}, posted |-> <<>>, status |-> "idle",
   before |-> {}, found |-> FALSE]

(***************************************************************************)
(* Zone type registry (lib/zoneTypes.js 10-42)                             *)
(***************************************************************************)
ZONE_TYPES == [BASIC |-> Null, UNBREATHABLE |-> "unbreathable"]

\* The key a value names when it indexes an object: null and undefined name
\* the keys "null" and "undefined".
PropertyKey(v) ==
  IF v = Null THEN "null" ELSE IF v = Undefined THEN "undefined" ELSE v

\* The own properties of the object literal ZONE_TYPE_CONFIGS.
ZONE_TYPE_CONFIGS ==
  [k \in {PropertyKey(ZONE_TYPES.BASIC), PropertyKey(ZONE_TYPES.UNBREATHABLE)} |->
     IF k = PropertyKey(ZONE_TYPES.BASIC)
     THEN [kind |-> "config", label |-> "ALIENZONE.ZoneTypes.Basic",
           hasChatMessage |-> True, hasSupplyRoll |-> False, supplyType |-> Undefined]
     ELSE [kind |-> "config", label |-> "ALIENZONE.ZoneTypes.Unbreathable",
           hasChatMessage |-> True, hasSupplyRoll |-> True, supplyType |-> "Air"]]

\* Properties every object literal inherits from Object.prototype.
ObjectPrototypeKeys == {"constructor", "toString", "valueOf", "hasOwnProperty"}

\* obj[key] on an object literal: an own property, an inherited one, or undefined.
GetProperty(own, key) ==
  IF key \in DOMAIN own THEN own[key]
  ELSE IF key \in ObjectPrototypeKeys THEN [kind |-> "function", name |-> key]
  ELSE [kind |-> "undefined"]

\* value.field, undefined when the value has no such field.
Field(v, f) == IF f \in DOMAIN v THEN v[f] ELSE Undefined

\* ZONE_TYPE_CONFIGS[zoneType] || ZONE_TYPE_CONFIGS[ZONE_TYPES.BASIC]
getZoneTypeConfig(zoneType) ==
  LET found == GetProperty(ZONE_TYPE_CONFIGS, PropertyKey(zoneType)) IN
  IF found.kind # "undefined" THEN found
  ELSE GetProperty(ZONE_TYPE_CONFIGS, PropertyKey(ZONE_TYPES.BASIC))

\* region.flags?.["alien-zones"]?.zoneType
ZoneTypeOf(region) == Field(region, "zoneType")

\* The record of a handler invocation that has ended is kept for one step.
Forget(r) == IF r.status \in {"returned", "threw"} THEN NoRun ELSE r

(***************************************************************************)
(* preUpdateToken (module.js 41-46)                                        *)
(***************************************************************************)
\* change.x !== undefined || change.y !== undefined, with the gate dropped
PositionChangedAlways(change) == TRUE

\* change.x !== undefined || change.y !== undefined
PositionChanged(change) == "x" \in change \/ "y" \in change

\* The handler's effect on the Map.
preUpdateTokenMap(m, t, change, current) ==
  IF PositionChanged(change) THEN MapSet(m, t, current) ELSE m

\* The host announces `change` for token t and calls the hook.
preUpdateToken(t, change) ==
  /\ pending[t] = NoChange
  /\ pending' = [pending EXCEPT ![t] = change]
  /\ tokenRegionsBeforeUpdate' =
       preUpdateTokenMap(tokenRegionsBeforeUpdate, t, change, regions[t])
  /\ run' = Forget(run)
  /\ UNCHANGED <<regions, scene, d, actor>>

(***************************************************************************)
(* updateToken (module.js 48-80)                                           *)
(***************************************************************************)
\* change.x === undefined && change.y === undefined
NoPositionChange(change) == "x" \notin change /\ "y" \notin change

\* !tokenDocument.hasPlayerOwner
NotPlayerOwned(owner) == ~Truthy(owner)

\* A missing entry read as "inside every region before"
ReadOldRegionIdsAllPrior(m, t) == IF MapHas(m, t) THEN m[t] ELSE Regions

\* tokenRegionsBeforeUpdate.get(tokenDocument.id) || new Set()
ReadOldRegionIds(m, t) == IF MapHas(m, t) THEN m[t] ELSE {}

\* !oldRegionIds.has(regionId), with the test dropped
IsNewAlways(regionId, old) == TRUE

\* !oldRegionIds.has(regionId)
IsNew(regionId, old) == regionId \notin old

\* The check if (region) left out
ResolvesAlways(sc, regionId) == TRUE

\* The check if (region) with isAlienZone(region) added
ResolvesAlienZone(sc, regionId) ==
  regionId \in DOMAIN sc /\ sc[regionId].isAlienZone = True

\* canvas.scene.regions.get(regionId), truthy
Resolves(sc, regionId) == regionId \in DOMAIN sc

\* The loop of lines 68-76 from the ids still to visit up to the next call of
\* postZoneEntryMessage: the ids left, the first of them the one to post.
RECURSIVE NextEntered(_, _, _)
NextEntered(todo, old, sc) ==
  IF todo = <<>> THEN <<>>
  ELSE IF IsNew(Head(todo), old) /\ Resolves(sc, Head(todo)) THEN todo
  ELSE NextEntered(Tail(todo), old, sc)

\* postZoneEntryMessage(...) called without await
NotAwaited == FALSE

\* await postZoneEntryMessage(...): the loop waits for the message.
Awaited == TRUE

\* The handler runs on from the ids `todo` until it awaits or returns.
RECURSIVE Advance(_, _, _)
Advance(r, todo, sc) ==
  LET nxt == NextEntered(todo, r.oldRegionIds, sc) IN
  IF nxt = <<>> THEN [r EXCEPT !.todo = <<>>, !.status = "returned"]
  ELSE LET called == [r EXCEPT !.fired = Append(r.fired, Head(nxt)),
                               !.inflight = r.inflight \cup {Head(nxt)}] IN
       IF Awaited
       THEN [called EXCEPT !.todo = Tail(nxt), !.status = "awaiting"]
       ELSE Advance(called, Tail(nxt), sc)

\* tokenRegionsBeforeUpdate.clear() in place of delete(tokenDocument.id)
CleanUpAll(m, t) == EmptyMap

\* tokenRegionsBeforeUpdate.delete(tokenDocument.id)
CleanUp(m, t) == MapDelete(m, t)

\* The loop and the clean-up after it: the Map is cleaned when the handler
\* gets past the loop.
RunOn(r, todo) ==
  LET r2 == Advance(r, todo, scene) IN
  /\ run' = r2
  /\ tokenRegionsBeforeUpdate' =
       IF r2.status = "returned" THEN CleanUp(tokenRegionsBeforeUpdate, r.tok)
       ELSE tokenRegionsBeforeUpdate

\* The host moves the token only when the change carries a position.
HostMoves(change) == change \cap {"x", "y"} # {}

\* The host applies the announced change to the token and calls the hook,
\* which runs to its first await or to its return.
updateToken(t, order, owner) ==
  /\ pending[t] # NoChange
  /\ run.status # "awaiting"
  /\ Range(order) \subseteq Arena(t)
  /\ ~HostMoves(pending[t]) => Range(order) = regions[t]
  /\ regions' = [regions EXCEPT ![t] = Range(order)]
  /\ pending' = [pending EXCEPT ![t] = NoChange]
  /\ UNCHANGED <<scene, d, actor>>
  /\ LET r0 == [NoRun EXCEPT !.tok = t] IN
     IF NoPositionChange(pending[t])
     THEN /\ run' = [r0 EXCEPT !.branch = "nonpositional", !.status = "returned"]
          /\ UNCHANGED tokenRegionsBeforeUpdate
     ELSE IF NotPlayerOwned(owner)
     THEN /\ run' = [r0 EXCEPT !.branch = "nonplayer", !.owner = owner,
                               !.status = "returned"]
          /\ UNCHANGED tokenRegionsBeforeUpdate
     ELSE RunOn([r0 EXCEPT !.branch = "normal", !.owner = owner,
                           !.oldRegionIds = ReadOldRegionIds(tokenRegionsBeforeUpdate, t),
                           !.newRegionIds = order,
                           !.before = regions[t],
                           !.found = MapHas(tokenRegionsBeforeUpdate, t)],
                order)

\* ChatMessage.create of the awaited postZoneEntryMessage resolves.
messagePosted(regionId) ==
  /\ run.status = "awaiting"
  /\ regionId \in run.inflight
  /\ UNCHANGED <<regions, pending, scene, d, actor>>
  /\ RunOn([run EXCEPT !.inflight = run.inflight \ {regionId},
                       !.posted = Append(run.posted, regionId)],
           run.todo)

\* ChatMessage.create rejects: the exception leaves updateToken, past the
\* rest of the loop and the clean-up.
messageFailed(regionId) ==
  /\ run.status = "awaiting"
  /\ regionId \in run.inflight
  /\ run' = [run EXCEPT !.inflight = {}, !.status = "threw"]
  /\ UNCHANGED <<tokenRegionsBeforeUpdate, regions, pending, scene, d, actor>>

(***************************************************************************)
(* handleZoneEntry and the unbreathable zone handler (lib/zoneHandlers.js) *)
(***************************************************************************)
\* Math.min left out: toConsume = remaining
MinUnclamped(a, b) == a

Min(a, b) == IF a <= b THEN a ELSE b

\* The filter of consumeAirSupply without its type test
HasAirSupplyAnyType(item) ==
  /\ item.active = "true"
  /\ item.value > 0

Returned(dd) == [dd EXCEPT !.pc = "returned"]
Threw(dd) == [dd EXCEPT !.pc = "threw"]
Raise(dd, at) == [dd EXCEPT !.raised = Append(dd.raised, at)]
Chat(dd, message) == [dd EXCEPT !.chat = Append(dd.chat, message)]
Notify(dd, notice) == [dd EXCEPT !.notices = Append(dd.notices, notice)]

\* The filter of consumeAirSupply: active, with air, an item or an armor.
HasAirSupply(item) ==
  /\ item.active = "true"
  /\ item.value > 0
  /\ item.type \in {"item", "armor"}

\* actor.items.filter(...): the positions of the items kept, in order.
RECURSIVE itemsWithAir(_, _)
itemsWithAir(items, i) ==
  IF i > Len(items) THEN <<>>
  ELSE (IF HasAirSupply(items[i]) THEN <<i>> ELSE <<>>) \o itemsWithAir(items, i + 1)

\* The sort with the comparator airB - airA: descending.
RECURSIVE InsertByAirDescending(_, _, _)
InsertByAirDescending(items, sorted, i) ==
  IF sorted = <<>> THEN <<i>>
  ELSE IF items[i].value > items[Head(sorted)].value THEN <<i>> \o sorted
  ELSE <<Head(sorted)>> \o InsertByAirDescending(items, Tail(sorted), i)

\* Array.prototype.sort with the comparator airA - airB: stable, ascending.
RECURSIVE InsertByAir(_, _, _)
InsertByAir(items, sorted, i) ==
  IF sorted = <<>> THEN <<i>>
  ELSE IF items[i].value < items[Head(sorted)].value THEN <<i>> \o sorted
  ELSE <<Head(sorted)>> \o InsertByAir(items, Tail(sorted), i)

RECURSIVE SortByAir(_, _)
SortByAir(items, list) ==
  IF list = <<>> THEN <<>>
  ELSE InsertByAir(items, SortByAir(items, SubSeq(list, 1, Len(list) - 1)), list[Len(list)])

\* The loop of consumeAirSupply from the items `queue` on, up to its next
\* item.update or, past the loop, to the under-supply warning and the return.
ConsumeOn(dd, queue, remaining) ==
  IF queue = <<>> \/ remaining <= 0
  THEN Returned([dd EXCEPT !.queue = <<>>, !.remaining = remaining,
                           !.underSupply = IF remaining > 0 THEN remaining ELSE 0])
  ELSE [dd EXCEPT !.pc = "itemUpdate", !.queue = queue, !.remaining = remaining]

consumeAirSupply(dd, a, amount) ==
  ConsumeOn([dd EXCEPT !.consumed = Append(dd.consumed, amount)],
            SortByAir(a.items, itemsWithAir(a.items, 1)), amount)

\* triggerAirSupplyRoll with the guard airValue < 0 for airValue <= 0
triggerAirSupplyRollNoZeroCheck(dd, a) ==
  IF ~a.tracksAir THEN [dd EXCEPT !.pc = "promptMessage"]
  ELSE IF a.air < 0 THEN [dd EXCEPT !.pc = "dramaticMessage"]
  ELSE [dd EXCEPT !.pc = "import"]

\* triggerAirSupplyRoll up to its first await.
triggerAirSupplyRoll(dd, a) ==
  IF ~a.tracksAir THEN [dd EXCEPT !.pc = "promptMessage"]
  ELSE IF a.air <= 0 THEN [dd EXCEPT !.pc = "dramaticMessage"]
  ELSE [dd EXCEPT !.pc = "import"]

\* triggerAirSupplyRoll without its try/catch: the exception goes on to the
\* catch of handleUnbreathableZone.
triggerAirSupplyRollNoCatch(dd) ==
  Returned(Notify(dd, "error:ALIENZONE.Errors.SupplyRollFailed"))

\* The catch of triggerAirSupplyRoll: the fallback prompt is posted next.
triggerAirSupplyRollCatch(dd) == [dd EXCEPT !.pc = "fallbackMessage"]

\* handleUnbreathableZone without its try/catch: the exception goes on.
handleUnbreathableZoneNoCatch(dd) == Threw(dd)

\* The catch of handleUnbreathableZone: an error notice, and the handler returns.
handleUnbreathableZoneCatch(dd) ==
  Returned(Notify(dd, "error:ALIENZONE.Errors.SupplyRollFailed"))

\* handleUnbreathableZone up to its first await.
handleUnbreathableZone(dd, a) ==
  IF dd.systemId # "alienrpg"
  THEN Returned(Notify(dd, "warn:ALIENZONE.Errors.RequiresAlienRPG"))
  ELSE IF ~a.exists THEN Returned(dd)
  ELSE triggerAirSupplyRoll([dd EXCEPT !.handler = "unbreathable"], a)

\* The switch of handleZoneEntry.
DispatchToHandler(dd, a) ==
  IF dd.zoneType = ZONE_TYPES.UNBREATHABLE THEN handleUnbreathableZone(dd, a)
  ELSE Returned(dd)

\* handleZoneEntry is called for a token with actor `a` and a region of zone
\* type `zoneType`, and runs to its first await or to its return.
handleZoneEntry(zoneType, systemId, a) ==
  /\ d.pc = "idle"
  /\ actor' = a
  /\ LET d0 == [NoDispatch EXCEPT !.zoneType = zoneType, !.systemId = systemId,
                                  !.holders = a.items] IN
     d' = IF Truthy(Field(getZoneTypeConfig(zoneType), "hasChatMessage"))
          THEN [d0 EXCEPT !.pc = "postZoneEntryMessage"]
          ELSE DispatchToHandler(d0, a)
  /\ UNCHANGED hookVars

\* The caller has the outcome of handleZoneEntry, which can be called again.
handleZoneEntryEnded ==
  /\ d.pc \in {"returned", "threw"}
  /\ d' = NoDispatch
  /\ actor' = NoActor
  /\ UNCHANGED hookVars

\* The awaited ChatMessage.create of postZoneEntryMessage resolves or rejects.
entryMessagePosted ==
  /\ d.pc = "postZoneEntryMessage"
  /\ d' = DispatchToHandler(Chat(d, "entry"), actor)
  /\ UNCHANGED <<actor, hookVars>>

entryMessageFailed ==
  /\ d.pc = "postZoneEntryMessage"
  /\ d' = Threw(Raise(d, "postZoneEntryMessage"))
  /\ UNCHANGED <<actor, hookVars>>

\* The manual prompt of an actor without air tracking is posted or fails.
promptPosted ==
  /\ d.pc = "promptMessage"
  /\ d' = Returned(Chat(d, "prompt"))
  /\ UNCHANGED <<actor, hookVars>>

promptFailed ==
  /\ d.pc = "promptMessage"
  /\ d' = handleUnbreathableZoneCatch(Raise(d, "promptMessage"))
  /\ UNCHANGED <<actor, hookVars>>

\* The message of an actor out of air is posted, then the error notice, or fails.
dramaticPosted ==
  /\ d.pc = "dramaticMessage"
  /\ d' = Returned(Notify(Chat(d, "dramatic"), "error:ALIENZONE.Messages.NoAirSupply"))
  /\ UNCHANGED <<actor, hookVars>>

dramaticFailed ==
  /\ d.pc = "dramaticMessage"
  /\ d' = handleUnbreathableZoneCatch(Raise(d, "dramaticMessage"))
  /\ UNCHANGED <<actor, hookVars>>

\* The dynamic import of the dice roller resolves, and yzeRoll is called with
\* airValue dice, or rejects.
importResolved ==
  /\ d.pc = "import"
  /\ d' = [d EXCEPT !.pc = "yzeRoll", !.rolls = Append(d.rolls, actor.air)]
  /\ UNCHANGED <<actor, hookVars>>

importFailed ==
  /\ d.pc = "import"
  /\ d' = triggerAirSupplyRollCatch(Raise(d, "import"))
  /\ UNCHANGED <<actor, hookVars>>

\* The check onesRolled > 0 left out: consumeAirSupply is always called
consumeOnesRolledAlways(dd, a) == consumeAirSupply(dd, a, dd.onesRolled)

\* if (onesRolled > 0) await consumeAirSupply(actor, onesRolled)
consumeOnesRolled(dd, a) ==
  IF dd.onesRolled > 0 THEN consumeAirSupply(dd, a, dd.onesRolled) ELSE Returned(dd)

\* yzeRoll resolves with `ones` ones in game.alienrpg.rollArr.r2One, or rejects.
rollResolved(ones) ==
  /\ d.pc = "yzeRoll"
  /\ ones \in 0..actor.air
  /\ d' = consumeOnesRolled([d EXCEPT !.onesRolled = ones], actor)
  /\ UNCHANGED <<actor, hookVars>>

rollFailed ==
  /\ d.pc = "yzeRoll"
  /\ d' = triggerAirSupplyRollCatch(Raise(d, "yzeRoll"))
  /\ UNCHANGED <<actor, hookVars>>

\* item.update of the first item of the queue resolves or rejects.
itemUpdated ==
  /\ d.pc = "itemUpdate"
  /\ LET i == Head(d.queue)
         currentAir == actor.items[i].value
         toConsume == Min(d.remaining, currentAir)
         newAir == currentAir - toConsume
     IN /\ actor' = [actor EXCEPT !.items[i].value = newAir]
        /\ d' = ConsumeOn([d EXCEPT !.updated = Append(d.updated, i)],
                          Tail(d.queue), d.remaining - toConsume)
  /\ UNCHANGED hookVars

itemUpdateFailed ==
  /\ d.pc = "itemUpdate"
  /\ d' = triggerAirSupplyRollCatch(Raise(d, "itemUpdate"))
  /\ UNCHANGED <<actor, hookVars>>

\* The fallback prompt of the catch of triggerAirSupplyRoll is posted or fails.
fallbackPosted ==
  /\ d.pc = "fallbackMessage"
  /\ d' = Returned(Chat(d, "prompt"))
  /\ UNCHANGED <<actor, hookVars>>

fallbackFailed ==
  /\ d.pc = "fallbackMessage"
  /\ d' = handleUnbreathableZoneCatch(Raise(d, "fallbackMessage"))
  /\ UNCHANGED <<actor, hookVars>>

(***************************************************************************)
(* The specification of the hooks                                          *)
(***************************************************************************)

InitHooks ==
  /\ tokenRegionsBeforeUpdate = EmptyMap
  /\ regions \in {f \in [Tokens -> SUBSET Regions] : \A t \in Tokens : f[t] \subseteq Arena(t)}
  /\ pending = [t \in Tokens |-> NoChange]
  /\ scene \in Scenes
  /\ run = NoRun

Init == InitHooks /\ d = NoDispatch /\ actor = NoActor

Next ==
  \/ \E t \in Tokens, change \in Changes : preUpdateToken(t, change)
  \/ \E t \in Tokens :
       /\ pending[t] # NoChange
       /\ \E order \in RegionArrays, owner \in {True, False, Undefined} :
            updateToken(t, order, owner)
  \/ \E regionId \in Regions : messagePosted(regionId)
  \/ \E regionId \in Regions : messageFailed(regionId)

Spec == Init /\ [][Next]_vars

(***************************************************************************)
(* The specification of handleZoneEntry                                    *)
(***************************************************************************)
MaxItems == 2
MaxValue == 2
MaxAir == 2

\* region.flags["alien-zones"].zoneType as handleZoneEntry may read it
ZoneTypeInputs == {Null, Undefined, "unbreathable", "darkness", "constructor"}

\* game.system.id
SystemIds == {"alienrpg", "dnd5e"}

\* The items an actor may carry
ItemInputs ==
  {[type |-> "item", active |-> "true", value |-> v] : v \in 0..MaxValue}
    \cup {[type |-> "armor", active |-> "true", value |-> v] : v \in 1..MaxValue}
    \cup {[type |-> "item", active |-> "false", value |-> MaxValue],
          [type |-> "weapon", active |-> "true", value |-> 1]}

ItemLists == UNION {[1..n -> ItemInputs] : n \in 0..MaxItems}

ActorInputs ==
  {NoActor}
    \cup {[exists |-> TRUE, tracksAir |-> FALSE, air |-> 0, items |-> l] : l \in ItemLists}
    \cup {[exists |-> TRUE, tracksAir |-> TRUE, air |-> v, items |-> l] :
            v \in (-1)..MaxAir, l \in ItemLists}

InitDispatch ==
  /\ tokenRegionsBeforeUpdate = EmptyMap
  /\ regions = [t \in Tokens |-> {}]
  /\ pending = [t \in Tokens |-> NoChange]
  /\ scene = EmptyMap
  /\ run = NoRun
  /\ d = NoDispatch
  /\ actor = NoActor

NextDispatch ==
  \/ /\ d.pc = "idle"
     /\ \E zoneType \in ZoneTypeInputs, systemId \in SystemIds, a \in ActorInputs :
          handleZoneEntry(zoneType, systemId, a)
  \/ handleZoneEntryEnded
  \/ entryMessagePosted
  \/ entryMessageFailed
  \/ promptPosted
  \/ promptFailed
  \/ dramaticPosted
  \/ dramaticFailed
  \/ importResolved
  \/ importFailed
  \/ \E ones \in 0..MaxAir : rollResolved(ones)
  \/ rollFailed
  \/ itemUpdated
  \/ itemUpdateFailed
  \/ fallbackPosted
  \/ fallbackFailed

SpecDispatch == InitDispatch /\ [][NextDispatch]_vars

(***************************************************************************)
(* The specification of the depletion: triggerAirSupplyRoll from the call  *)
(* of yzeRoll on (lib/zoneHandlers.js 174-207, 80-116)                     *)
(***************************************************************************)
MaxHolders == 3
MaxHolderValue == 5
MaxAmount == 6

\* The items of the actor whose air is depleted
HolderInputs ==
  {[type |-> "item", active |-> "true", value |-> v] : v \in 0..MaxHolderValue}
    \cup {[type |-> "armor", active |-> "true", value |-> 1],
          [type |-> "item", active |-> "false", value |-> 1],
          [type |-> "weapon", active |-> "true", value |-> 1]}

HolderLists == UNION {[1..n -> HolderInputs] : n \in 0..MaxHolders}

\* handleZoneEntry has posted the entry message for an unbreathable region
\* and has called yzeRoll for an actor with MaxAmount air, so that the roll
\* can show up to MaxAmount ones.
InitDepletion ==
  /\ tokenRegionsBeforeUpdate = EmptyMap
  /\ regions = [t \in Tokens |-> {}]
  /\ pending = [t \in Tokens |-> NoChange]
  /\ scene = EmptyMap
  /\ run = NoRun
  /\ actor \in {[exists |-> TRUE, tracksAir |-> TRUE, air |-> MaxAmount, items |-> l] :
                  l \in HolderLists}
  /\ d = [NoDispatch EXCEPT !.pc = "yzeRoll", !.zoneType = ZONE_TYPES.UNBREATHABLE,
                            !.systemId = "alienrpg", !.handler = "unbreathable",
                            !.chat = <<"entry">>, !.rolls = <<actor.air>>,
                            !.holders = actor.items]

NextDepletion ==
  \/ \E ones \in 0..MaxAmount : rollResolved(ones)
  \/ rollFailed
  \/ itemUpdated
  \/ itemUpdateFailed
  \/ fallbackPosted
  \/ fallbackFailed

SpecDepletion == InitDepletion /\ [][NextDepletion]_vars

(***************************************************************************)
(* Properties of the hooks                                                 *)
(***************************************************************************)
\* The run of updateToken that has just ended
RunEnded == run.status \in {"returned", "threw"}
PriorSet == run.oldRegionIds
CurrentSet == Range(run.newRegionIds)
Visited == CurrentSet \ Range(run.todo)
ResolvableEntered == {r \in CurrentSet \ PriorSet : r \in DOMAIN scene}
NoDuplicates(s) == \A i, j \in 1..Len(s) : s[i] = s[j] => i = j
IsPrefix(s, t) == Len(s) <= Len(t) /\ \A i \in 1..Len(s) : s[i] = t[i]

\* C1: once updateToken has run to completion for a token, the Map holds no
\* entry for that token, whichever branch the handler took.
C1_NoEntryAfterUpdate ==
  run.status = "returned" => ~MapHas(tokenRegionsBeforeUpdate, run.tok)

C3_NonPositionalIsNoOp ==
  [][\A t \in Tokens :
       LET announced == pending[t] = NoChange /\ pending'[t] # NoChange
           applied == pending[t] # NoChange /\ pending'[t] = NoChange
           change == IF announced THEN pending'[t] ELSE pending[t]
       IN (announced \/ applied) /\ change \cap {"x", "y"} = {} =>
            /\ tokenRegionsBeforeUpdate' = tokenRegionsBeforeUpdate
            /\ announced => run' \in {run, NoRun}
            /\ applied => run'.fired = <<>> /\ run'.inflight = {} /\ run'.posted = <<>>
    ]_vars

\* updateToken has handled a change without position for a token whose entry
\* the Map holds.
C3_Witness ==
  /\ run.status = "returned" /\ run.branch = "nonpositional"
  /\ MapHas(tokenRegionsBeforeUpdate, run.tok)
  /\ tokenRegionsBeforeUpdate[run.tok] # {}

\* C4: a positional update of a token no player owns fires no entry event
\* and posts no message, and updateToken still clears the token's entry.
C4_NonPlayerSilentAndCleared ==
  run.branch = "nonplayer" /\ run.status = "returned" =>
    /\ run.fired = <<>> /\ run.posted = <<>> /\ run.inflight = {}
    /\ ~MapHas(tokenRegionsBeforeUpdate, run.tok)

\* C5: every entry event goes to handleZoneEntry, so once updateToken has
\* returned, the unbreathable handler has run for every unbreathable region
\* the token entered.
C5_EnteredUnbreathableIsHandled ==
  run.status = "returned" =>
    \A r \in Range(run.fired) :
       ZoneTypeOf(scene[r]) = ZONE_TYPES.UNBREATHABLE =>
         d.pc # "idle" /\ d.zoneType = ZONE_TYPES.UNBREATHABLE

\* C6: within one run of updateToken at most one message is in flight, an
\* event is fired only when the messages of all earlier events are posted,
\* and the messages are posted in the order the events were fired.
C6_DispatchSequential ==
  /\ Cardinality(run.inflight) <= 1
  /\ IsPrefix(run.posted, run.fired)
  /\ Len(run.fired) <= Len(run.posted) + 1
  /\ run.inflight # {} => run.inflight = {run.fired[Len(run.fired)]}
                          /\ Len(run.fired) = Len(run.posted) + 1

\* Two messages of one run have been posted, in the order of the events.
C6_Witness ==
  /\ run.status = "returned" /\ Len(run.posted) = 2
  /\ run.posted = run.fired

\* C7: no message is posted for an entered region whose resolved zone type
\* config has no truthy hasChatMessage.
C7_NoMessageWhenNotifyOff ==
  \A r \in Range(run.fired) :
     ~Truthy(Field(getZoneTypeConfig(ZoneTypeOf(scene[r])), "hasChatMessage")) =>
       r \notin run.inflight /\ r \notin Range(run.posted)

\* C9: an error while one entered region is handled does not keep the other
\* entered regions from their entry events: when the run ends, every
\* resolvable member of current \ prior has had its event.
C9_ErrorDoesNotAbortOthers ==
  RunEnded /\ run.branch = "normal" => Range(run.fired) = ResolvableEntered

\* The entry of a token in the Map, absent or a set
Entry(m, u) == IF MapHas(m, u) THEN <<"set", m[u]>> ELSE <<"absent">>

\* C10: a step of the handlers of one token leaves the Map entry of every
\* other token as it is.
C10_OtherEntriesUntouched ==
  [][LET t == IF \E x \in Tokens : pending'[x] # pending[x]
               THEN CHOOSE x \in Tokens : pending'[x] # pending[x]
               ELSE run.tok
     IN \A u \in Tokens \ {t} :
          Entry(tokenRegionsBeforeUpdate', u) = Entry(tokenRegionsBeforeUpdate, u)
    ]_vars

\* A run of updateToken for one token has ended, one of them in an error,
\* while the Map holds the entry of the other token.
C10_Witness ==
  /\ run.status = "threw"
  /\ \E u \in Tokens \ {run.tok} :
       MapHas(tokenRegionsBeforeUpdate, u) /\ tokenRegionsBeforeUpdate[u] # {}

\* C11: when the preUpdateToken of a token's next move runs while the
\* updateToken of its previous move is still awaiting a post, the
\* updateToken of the next move still compares against the snapshot its own
\* preUpdateToken took: it fires no entry event for a region the token was
\* already inside before that move.
C11_NoEventForRegionAlreadyInside ==
  run.branch = "normal" => Range(run.fired) \cap run.before = {}

\* C17: on the normal path updateToken deletes the token's Map entry before
\* it dispatches the first entry event: while a dispatch is awaited, and
\* after a dispatch has rejected, the Map holds no entry for the token
\* (unless a later preUpdateToken of the token has stored a new one).
C17_EntryDeletedBeforeDispatch ==
  /\ run.branch = "normal"
  /\ run.status \in {"awaiting", "threw"}
  /\ pending[run.tok] = NoChange
  => ~MapHas(tokenRegionsBeforeUpdate, run.tok)

\* The entered region ids that canvas.scene.regions does not resolve
UnresolvableEntered == {r \in CurrentSet \ PriorSet : r \notin DOMAIN scene}

\* C18: an entered region id that the scene does not resolve is skipped
\* without an exception: no entry event and no message for it, the other
\* entered ids of the move are still dispatched, and when the handler gets
\* past the loop the token's Map entry is deleted.
C18_UnresolvableSkipped ==
  run.branch = "normal" /\ UnresolvableEntered # {} =>
    /\ (Range(run.fired) \cup Range(run.posted) \cup run.inflight)
         \cap UnresolvableEntered = {}
    /\ run.status = "threw" => Len(run.fired) = Len(run.posted) + 1
    /\ Range(run.fired) = ResolvableEntered \cap Visited
    /\ run.status = "returned" =>
         /\ Range(run.fired) = ResolvableEntered
         /\ ~MapHas(tokenRegionsBeforeUpdate, run.tok)

\* The stale r3 came first in the token's regions and was skipped; r1, after
\* it, has had its message, and the entry is gone.
C18_Witness ==
  /\ run.status = "returned" /\ run.branch = "normal"
  /\ run.newRegionIds = <<"r3", "r1">> /\ PriorSet = {}
  /\ run.posted = <<"r1">>
  /\ ~MapHas(tokenRegionsBeforeUpdate, run.tok)

\* C19: preUpdateToken of a positional change stores a copy of the token's
\* containment at that moment, in place of any entry already there; what the
\* host does to the containment afterwards does not change the stored copy,
\* and the updateToken of that move compares against exactly this copy.
C19_DiffsAgainstOwnSnapshot ==
  /\ \A t \in Tokens :
       PositionChanged(pending[t]) /\ MapHas(tokenRegionsBeforeUpdate, t) =>
         tokenRegionsBeforeUpdate[t] = regions[t]
  /\ run.branch = "normal" => run.oldRegionIds = run.before

\* C20: when updateToken runs for a player-owned token and a positional
\* change and the Map holds no entry for the token, the prior set is empty
\* and nothing is raised for the missing entry: an entry event is fired for
\* every resolvable region of the token's current containment.
C20_MissingEntryIsEmptyPrior ==
  run.branch = "normal" /\ ~run.found =>
    /\ PriorSet = {}
    /\ Range(run.fired) = {r \in Visited : r \in DOMAIN scene}
    /\ run.status = "threw" => Len(run.fired) = Len(run.posted) + 1
    /\ run.status = "returned" => Range(run.fired) = CurrentSet \cap DOMAIN scene

\* Without an entry in the Map, a token in r1, r2 and the stale r3 has had
\* an event for r1 and for r2.
C20_Witness ==
  /\ run.status = "returned" /\ run.branch = "normal" /\ ~run.found
  /\ CurrentSet = {"r1", "r2", "r3"}
  /\ Range(run.posted) = {"r1", "r2"}

(***************************************************************************)
(* Properties of handleZoneEntry                                           *)
(***************************************************************************)
\* The awaited calls inside handleUnbreathableZone
HandlerCalls ==
  {"promptMessage", "dramaticMessage", "import", "yzeRoll", "itemUpdate",
   "fallbackMessage"}

\* C8: an exception raised inside the unbreathable handler does not leave
\* handleZoneEntry: the dispatch of that event ends by returning, and the
\* only exception that leaves handleZoneEntry is one of the entry message.
C8_HandlerFailureContained ==
  /\ Range(d.raised) \cap HandlerCalls # {} => d.pc # "threw"
  /\ d.pc = "threw" => d.raised = <<"postZoneEntryMessage">>
  /\ d.pc = "returned" /\ d.raised # <<>> =>
       d.notices # <<>> \/ d.chat[Len(d.chat)] = "prompt"

\* The roll and then the fallback prompt of its catch have both failed, and
\* handleZoneEntry has returned.
C8_Witness ==
  /\ d.pc = "returned"
  /\ d.raised = <<"yzeRoll", "fallbackMessage">>

\* The Basic config of the registry
BasicConfig == ZONE_TYPE_CONFIGS[PropertyKey(ZONE_TYPES.BASIC)]

\* C12: getZoneTypeConfig returns a config of the registry for every input:
\* the Basic config (chat message on, supply roll off) for null and for every
\* tag that is not a registered zone type, and a config with hasSupplyRoll
\* true for "unbreathable".
C12_ConfigForEveryInput ==
  d.pc # "idle" =>
    LET config == getZoneTypeConfig(d.zoneType) IN
    /\ config.kind = "config"
    /\ d.zoneType # ZONE_TYPES.UNBREATHABLE =>
         /\ config = BasicConfig
         /\ config.hasChatMessage = True /\ config.hasSupplyRoll = False
    /\ d.zoneType = ZONE_TYPES.UNBREATHABLE => config.hasSupplyRoll = True

\* C13: yzeRoll is called only for the unbreathable zone type when the
\* system is alienrpg, the token has an actor, the actor tracks air and its
\* air total is above zero, and then with as many stress dice as that total;
\* on every path where yzeRoll is not called no roll is made and no item of
\* the actor is changed.
C13_RollOnlyWithAir ==
  /\ d.rolls # <<>> =>
       /\ d.zoneType = ZONE_TYPES.UNBREATHABLE
       /\ d.systemId = "alienrpg"
       /\ actor.exists /\ actor.tracksAir
       /\ actor.air > 0
       /\ d.rolls = <<actor.air>>
  /\ d.rolls = <<>> => d.consumed = <<>> /\ actor.items = d.holders

\* yzeRoll has been called with two stress dice for an actor with air 2.
C13_Witness ==
  /\ d.pc = "yzeRoll"
  /\ actor.air > 1
  /\ d.rolls = <<actor.air>>

(***************************************************************************)
(* Properties of consumeAirSupply                                          *)
(***************************************************************************)
Holders == 1..Len(d.holders)
\* An item the depletion may take from: active, with air, an item or an armor
Eligible(i) ==
  /\ d.holders[i].active = "true"
  /\ d.holders[i].value > 0
  /\ d.holders[i].type \in {"item", "armor"}
Was(i) == d.holders[i].value
Is(i) == actor.items[i].value
Amount == d.consumed[1]

RECURSIVE SumOver(_, _)
SumOver(f, S) ==
  IF S = {} THEN 0
  ELSE LET i == CHOOSE x \in S : TRUE IN f[i] + SumOver(f, S \ {i})

\* What consumeAirSupply has taken from the items so far
Taken == SumOver([i \in Holders |-> Was(i) - Is(i)], Holders)
\* The air of the eligible items at the call
Supply == SumOver([i \in Holders |-> Was(i)], {i \in Holders : Eligible(i)})

\* C14: consumeAirSupply(actor, n) takes from the eligible items in
\* ascending order of their value, min(remaining, value) from each, until
\* nothing remains: an item is reduced only when every eligible item with a
\* smaller value is at 0, at most one item ends strictly between 0 and its
\* original value, and items 3, 1, 5 with n = 4 end as 0, 0, 5 with nothing
\* remaining.
C14_AscendingDepletion ==
  d.consumed # <<>> =>
    /\ Len(actor.items) = Len(d.holders)
    /\ \A i \in Holders : 0 <= Is(i) /\ Is(i) <= Was(i)
    /\ \A i, j \in {h \in Holders : Eligible(h)} :
         Is(i) < Was(i) /\ Was(j) < Was(i) => Is(j) = 0
    /\ Cardinality({i \in Holders : 0 < Is(i) /\ Is(i) < Was(i)}) <= 1
    /\ Taken = Amount - d.remaining
    /\ d.pc = "returned" /\ d.raised = <<>> =>
         \/ d.remaining = 0
         \/ \A i \in Holders : Eligible(i) => Is(i) = 0
    /\ /\ d.pc = "returned" /\ d.raised = <<>> /\ Amount = 4
       /\ Len(d.holders) = 3 /\ \A i \in Holders : Eligible(i)
       /\ <<Was(1), Was(2), Was(3)>> = <<3, 1, 5>>
       => <<Is(1), Is(2), Is(3)>> = <<0, 0, 5>> /\ d.remaining = 0

\* Items 3, 1, 5 have been depleted by 4 to 0, 0, 5.
C14_Witness ==
  /\ d.pc = "returned" /\ d.raised = <<>> /\ d.consumed = <<4>>
  /\ Len(d.holders) = 3 /\ \A i \in Holders : Eligible(i)
  /\ <<Was(1), Was(2), Was(3)>> = <<3, 1, 5>>
  /\ <<Is(1), Is(2), Is(3)>> = <<0, 0, 5>>

\* C15: when the amount is larger than the air of the eligible items,
\* consumeAirSupply raises nothing of its own and returns with every
\* eligible item at 0 and an under-supply warning for the remainder, the
\* amount less that air.
C15_UnderSupplyRecorded ==
  d.consumed # <<>> /\ Amount > Supply =>
    /\ d.raised = <<>> => d.pc \in {"itemUpdate", "returned"}
    /\ d.pc = "returned" /\ d.raised = <<>> =>
         /\ \A i \in Holders : Eligible(i) => Is(i) = 0
         /\ d.underSupply = Amount - Supply
         /\ d.underSupply > 0

\* Two items with 1 and 2 air have been emptied by an amount of 5, and the
\* warning reports the 2 that were missing.
C15_Witness ==
  /\ d.pc = "returned" /\ d.raised = <<>> /\ d.consumed = <<5>>
  /\ Len(d.holders) = 2 /\ \A i \in Holders : Eligible(i)
  /\ <<Was(1), Was(2)>> = <<2, 1>>
  /\ <<Is(1), Is(2)>> = <<0, 0>>
  /\ d.underSupply = 2

(***************************************************************************)
(* Properties of triggerAirSupplyRoll                                      *)
(***************************************************************************)
\* The awaited calls inside the try of triggerAirSupplyRoll
RollCalls == {"import", "yzeRoll", "itemUpdate"}
Last(s) == s[Len(s)]

\* C16: an exception raised while the roll is made is caught inside
\* triggerAirSupplyRoll and does not leave handleZoneEntry; the catch posts
\* the message that the path of an actor without air tracking posts, the
\* SupplyRollPrompt. The failure is never silent: should the post of that
\* message fail too, the error notice SupplyRollFailed is shown.
C16_RollFailureFallsBackToPrompt ==
  /\ Range(d.raised) \cap RollCalls # {} =>
       /\ d.pc \in {"fallbackMessage", "returned"}
       /\ d.pc = "returned" =>
            IF "fallbackMessage" \in Range(d.raised)
            THEN d.notices = <<"error:ALIENZONE.Errors.SupplyRollFailed">>
            ELSE Last(d.chat) = "prompt" /\ d.notices = <<>>
  /\ /\ d.pc = "returned" /\ d.handler = "unbreathable"
     /\ ~actor.tracksAir /\ d.raised = <<>>
     => Last(d.chat) = "prompt"

\* yzeRoll has thrown and the prompt has been posted after the entry message.
C16_Witness ==
  /\ d.pc = "returned"
  /\ d.raised = <<"yzeRoll">>
  /\ d.chat = <<"entry", "prompt">>

\* yzeRoll has resolved and game.alienrpg.rollArr.r2One has been read.
RollRead ==
  d.rolls # <<>> /\ d.pc # "yzeRoll" /\ "yzeRoll" \notin Range(d.raised)

\* C21: once the roll has returned and the count of ones is read, a count
\* of zero ends the handler with no item changed, and a positive count calls
\* consumeAirSupply exactly once, with that count as its amount.
C21_OnesDriveDepletion ==
  RollRead =>
    IF d.onesRolled = 0
    THEN d.pc = "returned" /\ d.consumed = <<>> /\ actor.items = d.holders
    ELSE d.consumed = <<d.onesRolled>>

\* Three ones were rolled and consumeAirSupply has run once, for 3.
C21_Witness ==
  /\ RollRead /\ d.pc = "returned" /\ d.raised = <<>>
  /\ d.onesRolled = 3 /\ d.consumed = <<3>>
  /\ Taken = 3

\* C22: consumeAirSupply keeps the value of every item at 0 or above and
\* never changes an item that is inactive, has no positive value or is
\* neither an item nor an armor; item.update is called at most once on an
\* eligible item, and when the function returns the air taken from the
\* items adds up to min(amount, air of the eligible items).
C22_DepletionInvariants ==
  d.consumed # <<>> =>
    /\ \A i \in Holders : Is(i) >= 0
    /\ \A i \in Holders : ~Eligible(i) => actor.items[i] = d.holders[i]
    /\ NoDuplicates(d.updated)
    /\ \A i \in Holders : Is(i) # Was(i) => i \in Range(d.updated)
    /\ Range(d.updated) \subseteq {i \in Holders : Eligible(i)}
    /\ Taken <= Min(Amount, Supply)
    /\ d.pc = "returned" /\ d.raised = <<>> => Taken = Min(Amount, Supply)

\* An amount of 4 has been taken from an item with 1 and an armor with 1,
\* updated once each, beside an inactive item, so that 2 were taken.
C22_Witness ==
  /\ d.pc = "returned" /\ d.raised = <<>> /\ d.consumed = <<4>>
  /\ Len(d.holders) = 3
  /\ d.holders[1].type = "armor" /\ d.holders[2].active = "false"
  /\ Eligible(3)
  /\ Range(d.updated) = {1, 3}
  /\ Taken = 2 /\ Is(2) = Was(2)

(***************************************************************************)
(* The isAlienZone flag                                                    *)
(***************************************************************************)
\* The regions of the scene the token has entered and the loop has reached
EnteredVisited == (CurrentSet \ PriorSet) \cap Visited \cap DOMAIN scene

====
